---- MODULE Spec2Model ----
(***************************************************************************)
(* Model of re-export-tokenizer-json.py:                                   *)
(*                                                                         *)
(*   3  import sys                                                         *)
(*   4  from transformers import AutoTokenizer                             *)
(*   6  tokenizer = AutoTokenizer.from_pretrained(sys.argv[1])             *)
(*   7  tokenizer.save_pretrained(sys.argv[1])                             *)
(*                                                                         *)
(* One run of the process is one behaviour.  Init is the state once the    *)
(* imports of lines 3-4 have bound sys and AutoTokenizer; the two          *)
(* statements of lines 6 and 7 are the two steps.  The pretrained-         *)
(* tokenizer library is not part of the repository: whether a call of it   *)
(* returns or raises is decided by the environment (recognizable,          *)
(* writable), chosen freely in Init.                                       *)
(***************************************************************************)
EXTENDS Integers, Sequences, FiniteSets, TLC

VARIABLES
    argv,          \* sys.argv: argv[1] is the script name (Python index 0)
    pc,            \* "line6", "line7" or "exit"
    tokenizer,     \* the module-level name: <<>> while unbound, else <<object>>
    exitCode,      \* -1 while running, then the process's exit status
    error,         \* the unhandled exception that ended the run, or "none"
    loaderLog,     \* calls of AutoTokenizer.from_pretrained made so far
    saverLog,      \* calls of save_pretrained made so far
    files,         \* what is stored at each location of the filesystem
    files0,        \* files when the process started
    recognizable,  \* locations from which the external loader returns a tokenizer
    writable       \* locations at which the external saver completes

vars == <<argv, pc, tokenizer, exitCode, error, loaderLog, saverLog,
          files, files0, recognizable, writable>>

\* ---------------------------------------------------------------- bounds

\* Most command-line arguments given after the script name.
MaxArgs == 2

ScriptName == "re-export-tokenizer-json.py"

\* Argument strings: local paths and a model-hub identifier.
Names == {"tok_dir", "other_dir", "org/model"}

Locations == Names \cup {ScriptName}

\* Most calls a log keeps: the logs are histories kept for the properties, and
\* a log that is full drops what comes after.
MaxCalls == 3

\* The log with one more call recorded.
Record(log, call) == IF Len(log) < MaxCalls THEN Append(log, call) ELSE log

\* Sequences over S of length 0..n.
RECURSIVE SeqsUpTo(_, _)
SeqsUpTo(S, n) ==
    IF n = 0 THEN {<<>>}
    ELSE LET shorter == SeqsUpTo(S, n - 1)
         IN  shorter \cup {Append(s, x) : s \in {t \in shorter : Len(t) = n - 1}, x \in S}

\* ------------------------------------------------- Python list subscript

\* list[i] for i >= 0 raises IndexError unless i < len(list).
InRange(list, i) == i < Len(list)

\* list[i], Python's 0-based index on a 1-based sequence.
Item(list, i) == list[i + 1]

\* ------------------------------------------------------ the script's text

\* The subscript of sys.argv on line 6: the faulty variants are sys.argv[0] and
\* sys.argv[-1].
LoaderArgIndexZero == 1 - 1
LoaderArgIndexLast == Len(argv) - 1
LoaderArgIndex == 1

\* The subscript of sys.argv on line 7: the faulty variant is sys.argv[-1].
SaverArgIndexLast == Len(argv) - 1
SaverArgIndex == 1

\* The receiver of save_pretrained on line 7 is the name bound on line 6,
\* untouched in between; the faulty variant changes the object before saving it.
SaverSelfModified == [tokenizer[1] EXCEPT !.state = "modified"]
SaverSelf == tokenizer[1]

\* Line 6 only calls the loader, which reads its location; the script writes
\* nothing before line 7.  The faulty variant prepares the output location first.
FilesAfterLoadTouched(p) == [files EXCEPT ![p] = "partial"]
FilesAfterLoad(p) == files

\* No try/except anywhere: an exception ends the process with status 1.
\* The faulty variant swallows it and lets the process end normally.
UnhandledSwallowed(kind) ==
    /\ pc' = "exit"
    /\ exitCode' = 0
    /\ error' = "none"
Unhandled(kind) ==
    /\ pc' = "exit"
    /\ exitCode' = 1
    /\ error' = kind

\* Where line 7 goes after the saver raised: nowhere but out.  The faulty
\* variant retries the whole load-then-save.
AfterSaveErrorRetry ==
    /\ pc' = "line6"
    /\ exitCode' = exitCode
    /\ error' = error
AfterSaveError == Unhandled("SaverError")

\* ------------------------------------------------------------------ Init

Init ==
    /\ argv \in {<<ScriptName>> \o a : a \in SeqsUpTo(Names, MaxArgs)}
    /\ pc = "line6"
    /\ tokenizer = <<>>
    /\ exitCode = -1
    /\ error = "none"
    /\ loaderLog = <<>>
    /\ saverLog = <<>>
    /\ files \in [Locations -> {"absent", "orig"}]
    /\ files[ScriptName] = "orig"
    /\ files0 = files
    /\ recognizable \in SUBSET Names
    /\ writable \in SUBSET Names

\* ---------------------------------------------------------------- line 6

\* sys.argv[1] raises IndexError before from_pretrained is entered.
Line6IndexError ==
    /\ pc = "line6"
    /\ ~InRange(argv, LoaderArgIndex)
    /\ Unhandled("IndexError")
    /\ UNCHANGED <<argv, tokenizer, loaderLog, saverLog, files, files0,
                   recognizable, writable>>

\* from_pretrained returns; its result is bound to tokenizer.
Line6Loaded ==
    /\ pc = "line6"
    /\ InRange(argv, LoaderArgIndex)
    /\ LET p   == Item(argv, LoaderArgIndex)
           obj == [loc |-> p, state |-> "as_loaded"]
       IN  /\ p \in recognizable
           /\ loaderLog' = Record(loaderLog, [arg |-> p, ok |-> TRUE, ret |-> <<obj>>])
           /\ tokenizer' = <<obj>>
           /\ files' = FilesAfterLoad(p)
    /\ pc' = "line7"
    /\ UNCHANGED <<argv, exitCode, error, saverLog, files0, recognizable, writable>>

\* from_pretrained raises; nothing is bound and the exception propagates.
Line6LoadError ==
    /\ pc = "line6"
    /\ InRange(argv, LoaderArgIndex)
    /\ LET p == Item(argv, LoaderArgIndex)
       IN  /\ p \notin recognizable
           /\ loaderLog' = Record(loaderLog, [arg |-> p, ok |-> FALSE, ret |-> <<>>])
           /\ files' = FilesAfterLoad(p)
    /\ Unhandled("LoaderError")
    /\ UNCHANGED <<argv, tokenizer, saverLog, files0, recognizable, writable>>

\* ---------------------------------------------------------------- line 7
\* Line 7 is reached only after line 6 evaluated the same sys.argv[1], and
\* nothing assigns sys.argv, so its subscript is in range in both actions.

\* save_pretrained returns: the location now holds the library's files.
Line7Saved ==
    /\ pc = "line7"
    /\ InRange(argv, SaverArgIndex)
    /\ LET p == Item(argv, SaverArgIndex)
       IN  /\ p \in writable
           /\ saverLog' = Record(saverLog, [self |-> SaverSelf, path |-> p, ok |-> TRUE])
           /\ files' = [files EXCEPT ![p] = "canonical"]
    /\ pc' = "exit"
    /\ exitCode' = 0
    /\ error' = "none"
    /\ UNCHANGED <<argv, tokenizer, loaderLog, files0, recognizable, writable>>

\* save_pretrained raises: the location is as before or partly written.
Line7SaveError ==
    /\ pc = "line7"
    /\ InRange(argv, SaverArgIndex)
    /\ LET p == Item(argv, SaverArgIndex)
       IN  /\ p \notin writable
           /\ saverLog' = Record(saverLog, [self |-> SaverSelf, path |-> p, ok |-> FALSE])
           /\ \E after \in {files[p], "partial"} : files' = [files EXCEPT ![p] = after]
    /\ AfterSaveError
    /\ UNCHANGED <<argv, tokenizer, loaderLog, files0, recognizable, writable>>

Next ==
    \/ Line6IndexError
    \/ Line6Loaded
    \/ Line6LoadError
    \/ Line7Saved
    \/ Line7SaveError

Spec == Init /\ [][Next]_vars

\* The interpreter runs the next statement whenever there is one, and each
\* library call returns or raises.
FairSpec == Spec /\ WF_vars(Next)


\* ------------------------------------------------------------ properties

\* The command line as the caller sees it: the first argument is argv[2].
HasFirstArg == Len(argv) >= 2
FirstArg == argv[2]

LoadSucceeded == \E i \in DOMAIN loaderLog : loaderLog[i].ok
LoadFailed == \E i \in DOMAIN loaderLog : ~loaderLog[i].ok
SaveSucceeded == \E i \in DOMAIN saverLog : saverLog[i].ok
SaveFailed == \E i \in DOMAIN saverLog : ~saverLog[i].ok

\* C2: with a first argument the loader does not recognise, the run fails
\* with the loader's error, the saver is never invoked, and every location
\* holds at every moment what it held when the process started.
C2_UnrecognizedPathFailsUntouched ==
    (HasFirstArg /\ FirstArg \notin recognizable) =>
        /\ saverLog = <<>>
        /\ files = files0
        /\ pc # "line7"
        /\ pc = "exit" =>
            /\ exitCode = 1
            /\ error = "LoaderError"
            /\ loaderLog = <<[arg |-> FirstArg, ok |-> FALSE, ret |-> <<>>]>>

\* A finished run on an unrecognised path that held files, at a location the
\* saver could have written.
C2_Witness ==
    /\ pc = "exit"
    /\ HasFirstArg
    /\ FirstArg \notin recognizable
    /\ FirstArg \in writable
    /\ files0[FirstArg] = "orig"
    /\ LoadFailed

\* C3: with no argument the run ends in its first step with IndexError and
\* status 1; neither the loader nor the saver is ever invoked and no location
\* is created or modified.
C3_NoArgumentFailsAtOnce ==
    ~HasFirstArg =>
        /\ loaderLog = <<>>
        /\ saverLog = <<>>
        /\ tokenizer = <<>>
        /\ files = files0
        /\ pc \in {"line6", "exit"}
        /\ pc = "exit" => (exitCode = 1 /\ error = "IndexError")

\* A finished run that was given no argument.
C3_Witness ==
    /\ pc = "exit"
    /\ argv = <<ScriptName>>
    /\ error = "IndexError"

\* C5: every call of the loader and every call of the saver receives the
\* first command-line argument itself, and sys.argv is never assigned.
C5_SameArgumentToBoth ==
    /\ \A i \in DOMAIN loaderLog : HasFirstArg /\ loaderLog[i].arg = FirstArg
    /\ \A i \in DOMAIN saverLog : HasFirstArg /\ saverLog[i].path = FirstArg
    /\ (loaderLog # <<>> /\ saverLog # <<>>) => loaderLog[1].arg = saverLog[1].path

\* Both calls made, on a command line whose last argument differs from the
\* first.
C5_Witness ==
    /\ loaderLog # <<>>
    /\ saverLog # <<>>
    /\ Len(argv) = 3
    /\ argv[3] # argv[2]

\* C6: a finished run has status 0 exactly when the load and the save both
\* succeeded, and status 1 with the raising call's own error otherwise; the
\* loader and the saver are each invoked at most once.
C6_ExitStatus ==
    /\ Len(loaderLog) <= 1
    /\ Len(saverLog) <= 1
    /\ pc # "exit" => (exitCode = -1 /\ error = "none")
    /\ pc = "exit" =>
        /\ exitCode \in {0, 1}
        /\ exitCode = 0 <=> (LoadSucceeded /\ SaveSucceeded)
        /\ exitCode = 0 <=> error = "none"
        /\ ~HasFirstArg => (exitCode = 1 /\ error = "IndexError")
        /\ LoadFailed => (exitCode = 1 /\ error = "LoaderError")
        /\ SaveFailed => (exitCode = 1 /\ error = "SaverError")

\* A run ended by the saver's error after a successful load.
C6_Witness ==
    /\ pc = "exit"
    /\ LoadSucceeded
    /\ SaveFailed
    /\ exitCode = 1

\* C8: the saver is invoked only after the one loader call has returned, never
\* in a run where the loader raised, and on exactly the object the loader
\* returned, in the state the loader returned it in.
C8_SaveAfterLoadOfSameObject ==
    /\ LoadFailed => (saverLog = <<>> /\ pc = "exit")
    /\ pc = "line7" => (LoadSucceeded /\ saverLog = <<>>)
    /\ saverLog # <<>> =>
        /\ Len(loaderLog) = 1
        /\ loaderLog[1].ok
        /\ \A i \in DOMAIN saverLog : <<saverLog[i].self>> = loaderLog[1].ret
    /\ LoadSucceeded => tokenizer = loaderLog[1].ret

\* A save that returned.
C8_Witness ==
    /\ pc = "exit"
    /\ SaveSucceeded
    /\ saverLog[1].self.state = "as_loaded"

\* C9: every run reaches the exit, completed or failed.
C9_Terminates == <>(pc = "exit")

\* A run that completed after the save.
C9_Witness ==
    /\ pc = "exit"
    /\ exitCode = 0
    /\ files[FirstArg] = "canonical"

\* What a run given only the argument first does, as far as it has got: the
\* calls it makes, and the status and error it ends with.
LoaderCallFor(first) ==
    IF first \in recognizable
    THEN [arg |-> first, ok |-> TRUE, ret |-> <<[loc |-> first, state |-> "as_loaded"]>>]
    ELSE [arg |-> first, ok |-> FALSE, ret |-> <<>>]
SaverCallFor(first) ==
    [self |-> [loc |-> first, state |-> "as_loaded"], path |-> first,
     ok |-> first \in writable]
ExitCodeFor(first) ==
    IF first \in recognizable /\ first \in writable THEN 0 ELSE 1
ErrorFor(first) ==
    IF first \notin recognizable THEN "LoaderError"
    ELSE IF first \notin writable THEN "SaverError"
    ELSE "none"

\* C10: a run given one argument or more does what its first argument alone
\* determines: the loader call, the saver call, the exit status and the error
\* are those of the first argument, and the error is never an argument error.
C10_ExtraArgumentsIgnored ==
    HasFirstArg =>
        /\ pc = "line6" => (loaderLog = <<>> /\ saverLog = <<>>)
        /\ pc # "line6" => loaderLog = <<LoaderCallFor(FirstArg)>>
        /\ pc = "line7" => saverLog = <<>>
        /\ pc = "exit" =>
            /\ saverLog = IF FirstArg \in recognizable
                          THEN <<SaverCallFor(FirstArg)>> ELSE <<>>
            /\ exitCode = ExitCodeFor(FirstArg)
            /\ error = ErrorFor(FirstArg)
            /\ error # "IndexError"

\* A completed run with a second argument that, given first, would have made
\* the loader raise.
C10_Witness ==
    /\ pc = "exit"
    /\ Len(argv) = 3
    /\ argv[3] # argv[2]
    /\ argv[3] \notin recognizable
    /\ exitCode = 0

====
